---- MODULE Spec2Model ----
(***************************************************************************)
(* Model of ec_utils.modules: _modularise_snakemake_graph and              *)
(* write_snakemake_modulegraph_png.                                        *)
(*                                                                         *)
(* Strings are sequences of one-character strings, so that str.replace,    *)
(* str.startswith and str.endswith are computed character by character.    *)
(* Node identifiers, labels and prefixes are all Python strings and share  *)
(* one name space: a prefix may equal a node identifier.                   *)
(* A graph is a record [node, edges]: node maps each node identifier to    *)
(* its attribute dictionary, edges is a set of ordered pairs.  An          *)
(* attribute dictionary is a record over AttrKeys whose fields are {} for  *)
(* an absent key and {v} for a key with value v.                           *)
(* Graph objects live in a heap (a sequence of graphs) and are named by    *)
(* references (indices), so that copying and aliasing are distinguishable. *)
(***************************************************************************)
EXTENDS Integers, Sequences, FiniteSets, TLC

\* ---------------------------------------------------------------- bounds
MaxNodes == 2
MaxEdges == 2
MaxPrefixes == 2

\* ------------------------------------------------------------ input pools
Quote == "\""

NodePool == << <<"a">>, <<"m", "x">>, <<"b">>, <<"c">> >>

NodeIds == { NodePool[k] : k \in 1..MaxNodes }

LabelPool == { <<Quote, "m", Quote, "x">>, <<"n">> }

PrefixPool == { <<"m">>, <<"m", "x">>, <<"n">> }

PathPool == { <<"g", ".", "d", "o", "t">>, <<"g", ".", "t", "x", "t">>, <<"d", "o", "t">> }

AttrKeys == {"label", "color", "style"}

NoAttrs == [k \in AttrKeys |-> {}]

InputAttrs == { [NoAttrs EXCEPT !["label"] = l] : l \in {{}} \cup { {s} : s \in LabelPool } }

GraphsOn(S) ==
  { [node |-> f, edges |-> E] :
      f \in [S -> InputAttrs],
      E \in { X \in SUBSET (S \X S) : Cardinality(X) <= MaxEdges } }

Graphs == UNION { GraphsOn(S) : S \in SUBSET NodeIds }

PrefixLists == UNION { [1..k -> PrefixPool] : k \in 0..MaxPrefixes }

PrefixArgs ==
  { [isstr |-> TRUE, val |-> p] : p \in PrefixPool }
    \cup { [isstr |-> FALSE, val |-> l] : l \in PrefixLists }

\* --------------------------------------------------------------- strings
RECURSIVE replace(_, _)
\* value.replace(old, ""): drop every occurrence of the character old
replace(value, old) ==
  IF value = <<>> THEN <<>>
  ELSE IF Head(value) = old THEN replace(Tail(value), old)
       ELSE <<Head(value)>> \o replace(Tail(value), old)

startswith(value, prefix) ==
  /\ Len(prefix) <= Len(value)
  /\ \A k \in 1..Len(prefix) : value[k] = prefix[k]

endswith(value, suffix) ==
  /\ Len(suffix) <= Len(value)
  /\ \A k \in 1..Len(suffix) : value[Len(value) - Len(suffix) + k] = suffix[k]

\* variant: the suffix without its period
DotSuffix_nodot == <<"d", "o", "t">>

DotSuffix == <<".", "d", "o", "t">>

\* ------------------------------------------------------- networkx graphs
get_node_attributes(G, name) ==
  [n \in { m \in DOMAIN G.node : G.node[m][name] # {} } |->
     CHOOSE v \in G.node[n][name] : TRUE]

\* dict.update: keys of new overwrite, the other keys are kept
update(old, new) == [k \in AttrKeys |-> IF new[k] # {} THEN new[k] ELSE old[k]]

add_node(G, n, attrs) ==
  [G EXCEPT !.node =
     [m \in DOMAIN G.node \cup {n} |->
        IF m = n
          THEN update(IF n \in DOMAIN G.node THEN G.node[n] ELSE NoAttrs, attrs)
          ELSE G.node[m]]]

\* variant: the edge is added in the opposite direction
add_edge_reversed(G, u, v) ==
  [node |-> [m \in DOMAIN G.node \cup {u, v} |->
               IF m \in DOMAIN G.node THEN G.node[m] ELSE NoAttrs],
   edges |-> G.edges \cup {<<v, u>>}]

\* add_edge creates missing endpoints with an empty attribute dictionary
add_edge(G, u, v) ==
  [node |-> [m \in DOMAIN G.node \cup {u, v} |->
               IF m \in DOMAIN G.node THEN G.node[m] ELSE NoAttrs],
   edges |-> G.edges \cup {<<u, v>>}]

has_edge(G, u, v) == <<u, v>> \in G.edges

\* remove_edge on a present edge (absence raises NetworkXError, see ProcessEdge)
remove_edge(G, u, v) == [G EXCEPT !.edges = G.edges \ {<<u, v>>}]

\* remove_nodes_from silently ignores nodes that are not in the graph
remove_nodes_from(G, nodes) ==
  [node |-> [m \in DOMAIN G.node \ nodes |-> G.node[m]],
   edges |-> { e \in G.edges : e[1] \notin nodes /\ e[2] \notin nodes }]

\* variant: no copy is made, the running graph is the input graph
copy_alias(h, r) == [heap |-> h, ref |-> r]

\* variant: create_empty_copy, the nodes without the edges
copy_nodes_only(h, r) == [heap |-> Append(h, [h[r] EXCEPT !.edges = {}]), ref |-> Len(h) + 1]

\* Graph.copy(): a new graph object with the same nodes, attributes and edges
copy(h, r) == [heap |-> Append(h, h[r]), ref |-> Len(h) + 1]

\* --------------------------------------------- _modularise_snakemake_graph
\* variant: the proxy node is not marked with a style
module_node_attrs_nostyle(prefix) ==
  [label |-> {prefix}, color |-> {"0 0 0"}, style |-> {}]

module_node_attrs(prefix) ==
  [label |-> {prefix}, color |-> {"0 0 0"}, style |-> {"diagonals"}]

clean_labels(G) ==
  LET raw == get_node_attributes(G, "label")
  IN  [key \in DOMAIN raw |-> replace(raw[key], Quote)]

\* variant: the startswith filter is dropped
module_nodes_all(lbls, prefix) == DOMAIN lbls

module_nodes_of(lbls, prefix) ==
  { key \in DOMAIN lbls : startswith(lbls[key], prefix) }

\* variant: an edge inside the module is contracted onto the proxy
ProcessEdge_contract(st, edge, module_nodes, prefix) ==
  IF ~st.ok THEN st
  ELSE IF {edge[1], edge[2]} \ module_nodes = {}
    THEN [ok |-> TRUE, G |-> add_edge(st.G, prefix, prefix)]
  ELSE IF edge[1] \in module_nodes /\ edge[2] \notin module_nodes
    THEN [ok |-> TRUE, G |-> add_edge(st.G, prefix, edge[2])]
  ELSE IF edge[1] \notin module_nodes /\ edge[2] \in module_nodes
    THEN [ok |-> TRUE, G |-> add_edge(st.G, edge[1], prefix)]
  ELSE st

\* variant: an edge that does not touch the module is removed
ProcessEdge_dropother(st, edge, module_nodes, prefix) ==
  IF ~st.ok THEN st
  ELSE IF {edge[1], edge[2]} \ module_nodes = {}
    THEN IF has_edge(st.G, edge[1], edge[2])
           THEN [ok |-> TRUE, G |-> remove_edge(st.G, edge[1], edge[2])]
           ELSE [ok |-> FALSE, G |-> st.G]
  ELSE IF edge[1] \in module_nodes /\ edge[2] \notin module_nodes
    THEN [ok |-> TRUE, G |-> add_edge(st.G, prefix, edge[2])]
  ELSE IF edge[1] \notin module_nodes /\ edge[2] \in module_nodes
    THEN [ok |-> TRUE, G |-> add_edge(st.G, edge[1], prefix)]
  ELSE [ok |-> TRUE, G |-> remove_edge(st.G, edge[1], edge[2])]

\* one pass of the body of `for edge in rulegraph.edges`; st = [ok, G]
ProcessEdge(st, edge, module_nodes, prefix) ==
  IF ~st.ok THEN st
  ELSE IF {edge[1], edge[2]} \ module_nodes = {}
    THEN IF has_edge(st.G, edge[1], edge[2])
           THEN [ok |-> TRUE, G |-> remove_edge(st.G, edge[1], edge[2])]
           ELSE [ok |-> FALSE, G |-> st.G]
  ELSE IF edge[1] \in module_nodes /\ edge[2] \notin module_nodes
    THEN [ok |-> TRUE, G |-> add_edge(st.G, prefix, edge[2])]
  ELSE IF edge[1] \notin module_nodes /\ edge[2] \in module_nodes
    THEN [ok |-> TRUE, G |-> add_edge(st.G, edge[1], prefix)]
  ELSE st

RECURSIVE ProcessEdges(_, _, _, _)
ProcessEdges(st, todo, module_nodes, prefix) ==
  IF todo = {} THEN st
  ELSE LET edge == CHOOSE e \in todo : TRUE
       IN  ProcessEdges(ProcessEdge(st, edge, module_nodes, prefix),
                        todo \ {edge}, module_nodes, prefix)

\* the edges the inner loop iterates over
loop_edges(rg, mg) == rg.edges

\* ----------------------------------------------------------- exceptions
NoException == [type |-> "None", msg |-> <<>>]

PrefixNotFound(prefix) ==
  [type |-> "ValueError", msg |-> <<"Prefix not found: ">> \o prefix \o <<".">>]

OnlyDotFiles == [type |-> "ValueError", msg |-> <<"Only .dot files can be processed.">>]

EdgeNotInGraph == [type |-> "NetworkXError", msg |-> <<"The edge is not in the graph.">>]

FileNotFound == [type |-> "FileNotFoundError", msg |-> <<"No such file or directory">>]

Step(name, arg) == [step |-> name, arg |-> arg]

\* ----------------------------------------------------------------- state
VARIABLES
  pc,               \* position in write_snakemake_modulegraph_png / callee
  snakemake_dotfile,\* the path argument
  prefixes,         \* the prefixes argument (a str or a list)
  module_prefixes,  \* the list the callee iterates
  heap,             \* graph objects
  rulegraph,        \* reference to the parsed graph (0 before parsing)
  modulegraph,      \* reference to the running graph (0 before the copy)
  labels,           \* cleaned labels, computed once on entry
  i,                \* index of the next prefix of the for loop
  exception,        \* the exception that ended the call, or NoException
  returned,         \* {} or {the graph returned by the callee}
  png,              \* {} or {the graph rendered to output_path}
  G0,               \* {} or {the value of the input graph at the call}
  trace             \* the steps performed so far, in order

vars == <<pc, snakemake_dotfile, prefixes, module_prefixes, heap, rulegraph,
          modulegraph, labels, i, exception, returned, png, G0, trace>>

Init ==
  /\ pc = "start"
  /\ snakemake_dotfile \in PathPool
  /\ prefixes \in PrefixArgs
  /\ module_prefixes = <<>>
  /\ heap = <<>>
  /\ rulegraph = 0
  /\ modulegraph = 0
  /\ labels = <<>>
  /\ i = 0
  /\ exception = NoException
  /\ returned = {}
  /\ png = {}
  /\ G0 = {}
  /\ trace = <<>>

Raise(exc) ==
  /\ pc' = "raised"
  /\ exception' = exc

\* lines 55-56: the path does not end in ".dot"
ValidateFails ==
  /\ pc = "start"
  /\ ~endswith(snakemake_dotfile, DotSuffix)
  /\ Raise(OnlyDotFiles)
  /\ trace' = Append(trace, Step("validate", snakemake_dotfile))
  /\ UNCHANGED <<snakemake_dotfile, prefixes, module_prefixes, heap, rulegraph,
                 modulegraph, labels, i, returned, png, G0>>

\* lines 55-58: the path is accepted, a str of prefixes becomes a list
Validate ==
  /\ pc = "start"
  /\ endswith(snakemake_dotfile, DotSuffix)
  /\ module_prefixes' = IF prefixes.isstr THEN <<prefixes.val>> ELSE prefixes.val
  /\ pc' = "parse"
  /\ trace' = Append(trace, Step("validate", snakemake_dotfile))
  /\ UNCHANGED <<snakemake_dotfile, prefixes, heap, rulegraph, modulegraph,
                 labels, i, exception, returned, png, G0>>

\* line 60: read_dot yields the graph the file describes
ReadDot ==
  /\ pc = "parse"
  /\ \E g \in Graphs :
       /\ heap' = Append(heap, g)
       /\ G0' = {g}
  /\ rulegraph' = Len(heap) + 1
  /\ pc' = "call"
  /\ trace' = Append(trace, Step("parse", snakemake_dotfile))
  /\ UNCHANGED <<snakemake_dotfile, prefixes, module_prefixes, modulegraph,
                 labels, i, exception, returned, png>>

\* line 60: the file cannot be read
ReadDotFails ==
  /\ pc = "parse"
  /\ Raise(FileNotFound)
  /\ trace' = Append(trace, Step("parse", snakemake_dotfile))
  /\ UNCHANGED <<snakemake_dotfile, prefixes, module_prefixes, heap, rulegraph,
                 modulegraph, labels, i, returned, png, G0>>

\* lines 12-16: clean the labels of the input graph and copy it
Enter ==
  /\ pc = "call"
  /\ labels' = clean_labels(heap[rulegraph])
  /\ LET c == copy(heap, rulegraph)
     IN  /\ heap' = c.heap
         /\ modulegraph' = c.ref
  /\ i' = 1
  /\ pc' = "loop"
  /\ UNCHANGED <<snakemake_dotfile, prefixes, module_prefixes, rulegraph,
                 exception, returned, png, G0, trace>>

\* the state of the running graph after lines 18-19 of the current iteration
WithProxy ==
  add_node(heap[modulegraph], module_prefixes[i], module_node_attrs(module_prefixes[i]))

CurrentModuleNodes == module_nodes_of(labels, module_prefixes[i])

EdgeLoop ==
  ProcessEdges([ok |-> TRUE, G |-> WithProxy],
               loop_edges(heap[rulegraph], heap[modulegraph]),
               CurrentModuleNodes, module_prefixes[i])

\* lines 17-25: no label starts with the prefix
IterationPrefixNotFound ==
  /\ pc = "loop"
  /\ i <= Len(module_prefixes)
  /\ CurrentModuleNodes = {}
  /\ heap' = [heap EXCEPT ![modulegraph] = WithProxy]
  /\ Raise(PrefixNotFound(module_prefixes[i]))
  /\ trace' = Append(trace, Step("modularise", module_prefixes[i]))
  /\ UNCHANGED <<snakemake_dotfile, prefixes, module_prefixes, rulegraph,
                 modulegraph, labels, i, returned, png, G0>>

\* lines 17-29: remove_edge raises because the edge is not in the running graph
IterationEdgeMissing ==
  /\ pc = "loop"
  /\ i <= Len(module_prefixes)
  /\ CurrentModuleNodes # {}
  /\ ~EdgeLoop.ok
  /\ heap' = [heap EXCEPT ![modulegraph] = EdgeLoop.G]
  /\ Raise(EdgeNotInGraph)
  /\ trace' = Append(trace, Step("modularise", module_prefixes[i]))
  /\ UNCHANGED <<snakemake_dotfile, prefixes, module_prefixes, rulegraph,
                 modulegraph, labels, i, returned, png, G0>>

\* lines 17-37: one complete iteration of the for loop over the prefixes
Iteration ==
  /\ pc = "loop"
  /\ i <= Len(module_prefixes)
  /\ CurrentModuleNodes # {}
  /\ EdgeLoop.ok
  /\ heap' = [heap EXCEPT ![modulegraph] =
                remove_nodes_from(EdgeLoop.G, CurrentModuleNodes)]
  /\ i' = i + 1
  /\ trace' = Append(trace, Step("modularise", module_prefixes[i]))
  /\ UNCHANGED <<pc, snakemake_dotfile, prefixes, module_prefixes, rulegraph,
                 modulegraph, labels, exception, returned, png, G0>>

\* line 39 and line 62: the running graph is returned to the caller
Return ==
  /\ pc = "loop"
  /\ i > Len(module_prefixes)
  /\ returned' = {heap[modulegraph]}
  /\ pc' = "render"
  /\ UNCHANGED <<snakemake_dotfile, prefixes, module_prefixes, heap, rulegraph,
                 modulegraph, labels, i, exception, png, G0, trace>>

\* lines 63-64: the returned graph is written to output_path
Render ==
  /\ pc = "render"
  /\ png' = returned
  /\ pc' = "done"
  /\ trace' = Append(trace, Step("render", <<>>))
  /\ UNCHANGED <<snakemake_dotfile, prefixes, module_prefixes, heap, rulegraph,
                 modulegraph, labels, i, exception, returned, G0>>

Next ==
  \/ ValidateFails
  \/ Validate
  \/ ReadDot
  \/ ReadDotFails
  \/ Enter
  \/ IterationPrefixNotFound
  \/ IterationEdgeMissing
  \/ Iteration
  \/ Return
  \/ Render

Spec == Init /\ [][Next]_vars

\* ------------------------------------------- vocabulary of the properties
\* The properties restate matching and the file extension on their own,
\* with SelectSeq and SubSeq, independently of replace/startswith/endswith.
IsQuoteFree(c) == c # Quote

Cleaned(value) == SelectSeq(value, IsQuoteFree)

HasPrefix(value, p) == Len(p) <= Len(value) /\ SubSeq(value, 1, Len(p)) = p

IsDotPath(path) ==
  Len(path) >= 4 /\ SubSeq(path, Len(path) - 3, Len(path)) = <<".", "d", "o", "t">>

Called == G0 # {}

In == CHOOSE g \in G0 : TRUE

Succeeded == returned # {}

Out == CHOOSE g \in returned : TRUE

Requested == IF prefixes.isstr THEN <<prefixes.val>> ELSE prefixes.val

PrefixSet == { Requested[k] : k \in 1..Len(Requested) }

Group(p) ==
  { n \in DOMAIN In.node :
      \E l \in In.node[n].label : HasPrefix(Cleaned(l), p) }

Outsider(n) == \A p \in PrefixSet : n \notin Group(p)

DistinctPrefixes ==
  \A j, k \in 1..Len(Requested) : j # k => Requested[j] # Requested[k]

GroupsNonEmpty == \A p \in PrefixSet : Group(p) # {}

GroupsDisjoint ==
  \A p, r \in PrefixSet : p # r => Group(p) \cap Group(r) = {}

NoCollision == PrefixSet \cap DOMAIN In.node = {}

ValidInput == DistinctPrefixes /\ GroupsNonEmpty /\ GroupsDisjoint /\ NoCollision

Running == heap[modulegraph]

\* -------------------------------------------------------------------- C1
\* C1: for distinct prefixes with non-empty, pairwise disjoint groups and no
\* prefix equal to a node identifier, the returned graph contains no input
\* node whose cleaned label starts with a requested prefix.
C1_NoGroupNodeRemains ==
  (Succeeded /\ ValidInput) =>
     \A p \in PrefixSet : Group(p) \cap DOMAIN Out.node = {}

\* -------------------------------------------------------------------- C3
\* C3: an input edge from a member of an earlier-processed group A to a
\* member of a later-processed group B (or from B to A) ends up in the
\* output as the edge between the two proxies, in the same direction.
C3_CrossGroupEdgeJoinsProxies ==
  (Succeeded /\ ValidInput) =>
     \A j, k \in 1..Len(Requested) : \A e \in In.edges :
        (j < k) =>
          /\ (e[1] \in Group(Requested[j]) /\ e[2] \in Group(Requested[k]))
                => <<Requested[j], Requested[k]>> \in Out.edges
          /\ (e[1] \in Group(Requested[k]) /\ e[2] \in Group(Requested[j]))
                => <<Requested[k], Requested[j]>> \in Out.edges

\* -------------------------------------------------------------------- C2
CrossingRedirected ==
  \A p \in PrefixSet : \A e \in In.edges :
     /\ (e[1] \in Group(p) /\ Outsider(e[2])) =>
           /\ <<p, e[2]>> \in Out.edges
           /\ <<e[2], p>> \in Out.edges =>
                 \E f \in In.edges : f[1] = e[2] /\ f[2] \in Group(p)
     /\ (Outsider(e[1]) /\ e[2] \in Group(p)) =>
           /\ <<e[1], p>> \in Out.edges
           /\ <<p, e[1]>> \in Out.edges =>
                 \E f \in In.edges : f[1] \in Group(p) /\ f[2] = e[1]

\* C2 as stated: every input edge with one endpoint in the group of p and the
\* other endpoint matching no requested prefix is in the output attached to
\* the proxy p in the same direction, and the reverse edge is in the output
\* only if an input edge requires it.
C2_Literal == Succeeded => CrossingRedirected

\* C2 amended: the same, provided no requested prefix is the identifier of an
\* input node.
C2_CrossingRedirected == (Succeeded /\ NoCollision) => CrossingRedirected

C2_Witness ==
  /\ Succeeded
  /\ NoCollision
  /\ \E p \in PrefixSet : \E e \in In.edges :
        /\ e[1] \in Group(p) /\ Outsider(e[2])
        /\ In.node[e[2]].label # {}
        /\ <<p, e[2]>> \in Out.edges
        /\ <<e[2], p>> \notin Out.edges

\* -------------------------------------------------------------------- C5
InternalDropped ==
  \A p \in PrefixSet : \A e \in In.edges :
     (e[1] \in Group(p) /\ e[2] \in Group(p)) =>
        /\ e \notin Out.edges
        /\ <<p, p>> \notin Out.edges

\* C5 as stated: an input edge with both endpoints in the same group
\* (self-loops included) is not in the output, and the group's proxy has no
\* self-loop.
C5_Literal == Succeeded => InternalDropped

\* C5 amended: the same, provided no requested prefix is the identifier of an
\* input node.
C5_InternalDropped == (Succeeded /\ NoCollision) => InternalDropped

C5_Witness ==
  /\ Succeeded
  /\ NoCollision
  /\ \E p \in PrefixSet : \E e, f \in In.edges :
        /\ e[1] \in Group(p) /\ e[2] \in Group(p) /\ e[1] # e[2]
        /\ f[1] \in Group(p) /\ f[1] = f[2]
        /\ p \in DOMAIN Out.node

\* ------------------------------------------------------------------- C10
OutsideUntouched(G) ==
  /\ \A n \in DOMAIN In.node :
        Outsider(n) => (n \in DOMAIN G.node /\ G.node[n] = In.node[n])
  /\ \A e \in In.edges : (Outsider(e[1]) /\ Outsider(e[2])) => e \in G.edges
  /\ DOMAIN G.node \ DOMAIN In.node \subseteq PrefixSet
  /\ \A e \in G.edges \ In.edges : e[1] \in PrefixSet \/ e[2] \in PrefixSet

\* C10 as stated: whatever the prefixes, input nodes matching no requested
\* prefix keep their attributes, input edges between two such nodes stay,
\* only proxy nodes are added and every added edge has a proxy endpoint.
C10_Literal == (pc \in {"loop", "render", "done"}) => OutsideUntouched(Running)

\* C10 amended: the same, provided no requested prefix is the identifier of
\* an input node.
C10_OutsideUntouched ==
  (pc \in {"loop", "render", "done"} /\ NoCollision) => OutsideUntouched(Running)

C10_Witness ==
  /\ pc = "done"
  /\ NoCollision
  /\ \E p \in PrefixSet : Group(p) # {} /\ p \in DOMAIN Out.node
  /\ \E e \in In.edges :
        /\ Outsider(e[1]) /\ Outsider(e[2])
        /\ In.node[e[1]].label # {}
        /\ e \in Out.edges

\* -------------------------------------------------------------------- C4
PrefixNotFoundMessage(p) == <<"Prefix not found: ">> \o p \o <<".">>

\* C4: when the loop reaches a prefix that no cleaned label of the input
\* graph starts with, the very next step raises ValueError 'Prefix not found:
\* p.' for that prefix, returns nothing and processes no further prefix; a
\* call that has raised takes no further step.
C4_FailFast ==
  [][ /\ (pc = "loop" /\ i <= Len(module_prefixes) /\ Group(module_prefixes[i]) = {})
         => /\ pc' = "raised"
            /\ exception' = [type |-> "ValueError",
                             msg |-> PrefixNotFoundMessage(module_prefixes[i])]
            /\ returned' = {}
            /\ png' = {}
            /\ i' = i
      /\ pc # "raised" ]_vars

C4_Witness ==
  /\ pc = "raised"
  /\ i = 2
  /\ Len(Requested) = 2
  /\ Group(Requested[1]) # {}
  /\ exception.type = "ValueError"
  /\ exception.msg = PrefixNotFoundMessage(Requested[2])
  /\ returned = {}

\* -------------------------------------------------------------------- C6
\* C6: from the call on, whether the call is running, has returned or has
\* raised, the caller's input graph has the nodes, attributes and edges it
\* had at the call.
C6_InputUnchanged == Called => heap[rulegraph] = In

C6_Witness ==
  /\ pc = "raised"
  /\ i = 2
  /\ exception.msg = PrefixNotFoundMessage(Requested[2])
  /\ Running # In
  /\ In.edges # {}
  /\ heap[rulegraph] = In

\* -------------------------------------------------------------------- C7
ExpectedTrace ==
  <<Step("validate", snakemake_dotfile), Step("parse", snakemake_dotfile)>>
    \o [k \in 1..Len(Requested) |-> Step("modularise", Requested[k])]
    \o <<Step("render", <<>>)>>

\* C7: the steps performed are always an initial part of validate, parse,
\* modularise each prefix in order, render; a path that does not end in
\* '.dot' raises 'Only .dot files can be processed.' with nothing parsed;
\* a call that raised has rendered nothing; an image is written only after
\* all steps.
C7_StepOrder ==
  /\ Len(trace) <= Len(ExpectedTrace)
  /\ \A k \in 1..Len(trace) : trace[k] = ExpectedTrace[k]
  /\ (~IsDotPath(snakemake_dotfile) /\ pc # "start") =>
        /\ pc = "raised"
        /\ exception = [type |-> "ValueError",
                        msg |-> <<"Only .dot files can be processed.">>]
        /\ Len(trace) = 1
        /\ heap = <<>>
        /\ G0 = {}
  /\ pc = "raised" => (png = {} /\ trace[Len(trace)].step # "render")
  /\ png # {} => (pc = "done" /\ trace = ExpectedTrace)

C7_Witness ==
  /\ snakemake_dotfile = <<"d", "o", "t">>
  /\ pc = "raised"
  /\ exception.msg = <<"Only .dot files can be processed.">>
  /\ png = {}

\* -------------------------------------------------------------------- C8
\* C8: with an empty prefix list the callee raises nothing and returns a
\* graph with the nodes, attributes and edges of the input graph.
C8_EmptyPrefixList ==
  (Called /\ Len(Requested) = 0) =>
     /\ pc # "raised"
     /\ Succeeded => Out = In

C8_Witness ==
  /\ Succeeded
  /\ Len(Requested) = 0
  /\ In.edges # {}
  /\ \E n \in DOMAIN In.node : In.node[n].label # {}

\* -------------------------------------------------------------------- C9
ProxyAttrs(p) == [label |-> {p}, color |-> {"0 0 0"}, style |-> {"diagonals"}]

\* C9: for distinct prefixes that are no input node identifiers, after each
\* completed iteration and in the returned graph every prefix processed so
\* far is a node with label = prefix, color = '0 0 0', style = 'diagonals',
\* and the graph has exactly one such node per processed prefix.
C9_ProxyNodes ==
  (pc \in {"loop", "render", "done"} /\ DistinctPrefixes /\ NoCollision) =>
     /\ \A k \in 1..(i - 1) :
           /\ Requested[k] \in DOMAIN Running.node
           /\ Running.node[Requested[k]] = ProxyAttrs(Requested[k])
     /\ Cardinality(DOMAIN Running.node \cap PrefixSet) = i - 1

C9_Witness ==
  /\ Succeeded
  /\ DistinctPrefixes
  /\ NoCollision
  /\ Len(Requested) = 2
  /\ \A e \in Out.edges : e[1] # Requested[1] /\ e[2] # Requested[1]
  /\ Requested[1] \in DOMAIN Out.node
  /\ In.edges # {}

====
